---- MODULE Spec2Model ----
(***************************************************************************)
(* Admission-control and resilience layer of the API gateway example:      *)
(* CircuitBreaker, ServiceRegistry and APIGateway.proxy_request of         *)
(* 13_architecture_mastery/13_api_gateway.py.                              *)
(*                                                                         *)
(* Two specifications share the breaker operators:                         *)
(*   SpecCB  one CircuitBreaker object driven directly (as the unit test   *)
(*           test_circuit_breaker does);                                   *)
(*   Spec    the registry and the proxy; proxy_request is split at its     *)
(*           only suspension point, the awaited outbound call, so several  *)
(*           requests can be in flight at once.                            *)
(* Time is an integer number of seconds read from a non-decreasing clock.  *)
(***************************************************************************)
EXTENDS Integers, Sequences, FiniteSets, TLC

VARIABLES
    now,              \* the clock read by datetime.utcnow()
    cb,               \* SpecCB: the CircuitBreaker object
    cb_last,          \* SpecCB: the last call made on cb and what it returned
    cb_hist,          \* SpecCB: history of the calls (streak of failures, ...)
    services,         \* ServiceRegistry.services
    current_index,    \* ServiceRegistry.current_index
    circuit_breakers, \* ServiceRegistry.circuit_breakers
    inflight,         \* outbound calls awaited by suspended proxy_request calls
    last,             \* outcome of the proxy_request call that ran last
    hist,             \* per service: history of the proxy outcomes
    reg_last,         \* SpecReg: the last registry call and what it returned
    reg_hist,         \* SpecReg: per service, history of the registry calls
    tb,               \* SpecTB: the TokenBucketLimiter object
    sw,               \* SpecSW: the SlidingWindowLimiter object
    fw,               \* SpecFW: the FixedWindowCounter object
    lim_last,         \* the last limiter call and what it returned
    lim_hist          \* per key, history of the limiter calls

vars == <<now, cb, cb_last, cb_hist, services, current_index,
          circuit_breakers, inflight, last, hist,
          reg_last, reg_hist, tb, sw, fw, lim_last, lim_hist>>
regVars == <<reg_last, reg_hist>>
limVars == <<tb, sw, fw, lim_last, lim_hist>>
cbVars == <<cb, cb_last, cb_hist>>
gwVars == <<services, current_index, circuit_breakers, inflight, last, hist>>

----------------------------------------------------------------------------
(* Bounds of the model *)

MaxTime == 60          \* the clock stops here
TickStep == 10         \* seconds that pass in one step of the clock
MaxFailures == 6       \* record_failure is not called beyond this count
MaxThreshold == 3      \* SpecCB: failure_threshold ranges over 1..MaxThreshold
MaxInFlight == 2       \* outbound calls awaited at once, per service

----------------------------------------------------------------------------
(* Configuration: ServiceConfig *)

FAILURE_THRESHOLD == 5
TIMEOUT_SECONDS == 30
TestTimeout == 1       \* timeout_seconds of the breaker built by the unit test

(* CircuitState *)
CLOSED == "closed"
OPEN == "open"
HALF_OPEN == "half_open"
CircuitState == {CLOSED, OPEN, HALF_OPEN}

None == -1             \* last_failure_time before any failure

----------------------------------------------------------------------------
(* CircuitBreaker *)

CircuitBreaker(failure_threshold, timeout_seconds) ==
    [failure_threshold |-> failure_threshold,
     timeout_seconds   |-> timeout_seconds,
     failure_count     |-> 0,
     last_failure_time |-> None,
     state             |-> CLOSED]

\* mutation: a success closes the breaker from every state
record_success_closes(b) ==
    [b EXCEPT !.failure_count = 0, !.state = CLOSED]

\* mutation: a success closes a HALF_OPEN breaker but keeps the count
record_success_keeps_count(b) ==
    [b EXCEPT !.state = IF b.state = HALF_OPEN THEN CLOSED ELSE b.state]

record_success(b) ==
    [b EXCEPT !.failure_count = 0,
              !.state = IF b.state = HALF_OPEN THEN CLOSED ELSE b.state]

\* mutation: the threshold must be exceeded, not reached
record_failure_gt(b, t) ==
    LET fc == b.failure_count + 1 IN
    [b EXCEPT !.failure_count = fc,
              !.last_failure_time = t,
              !.state = IF fc > b.failure_threshold THEN OPEN ELSE b.state]

\* mutation: only the first failure sets last_failure_time
record_failure_first_time(b, t) ==
    LET fc == b.failure_count + 1 IN
    [b EXCEPT !.failure_count = fc,
              !.last_failure_time = IF @ = None THEN t ELSE @,
              !.state = IF fc >= b.failure_threshold THEN OPEN ELSE b.state]

record_failure(b, t) ==
    LET fc == b.failure_count + 1 IN
    [b EXCEPT !.failure_count = fc,
              !.last_failure_time = t,
              !.state = IF fc >= b.failure_threshold THEN OPEN ELSE b.state]

\* mutation: an OPEN breaker admits the attempt without a cooldown
can_attempt_open_admits(b, t) ==
    IF b.state = CLOSED THEN [ret |-> TRUE, cb |-> b]
    ELSE IF b.state = OPEN
    THEN [ret |-> TRUE, cb |-> [b EXCEPT !.state = HALF_OPEN]]
    ELSE [ret |-> TRUE, cb |-> b]

\* mutation: the cooldown must be exceeded, not reached
can_attempt_gt(b, t) ==
    IF b.state = CLOSED THEN [ret |-> TRUE, cb |-> b]
    ELSE IF b.state = OPEN THEN
        IF b.last_failure_time # None
           /\ t - b.last_failure_time > b.timeout_seconds
        THEN [ret |-> TRUE, cb |-> [b EXCEPT !.state = HALF_OPEN]]
        ELSE [ret |-> FALSE, cb |-> b]
    ELSE [ret |-> TRUE, cb |-> b]

\* can_attempt returns a boolean and may change the breaker: both are given
\* mutation: after the cooldown the caller is admitted, the state stays OPEN
can_attempt_stays_open(b, t) ==
    IF b.state = CLOSED THEN [ret |-> TRUE, cb |-> b]
    ELSE IF b.state = OPEN THEN
        IF b.last_failure_time # None
           /\ t - b.last_failure_time >= b.timeout_seconds
        THEN [ret |-> TRUE, cb |-> b]
        ELSE [ret |-> FALSE, cb |-> b]
    ELSE [ret |-> TRUE, cb |-> b]

\* mutation: while HALF_OPEN no further caller is admitted
can_attempt_single_probe(b, t) ==
    IF b.state = CLOSED THEN [ret |-> TRUE, cb |-> b]
    ELSE IF b.state = OPEN THEN
        IF b.last_failure_time # None
           /\ t - b.last_failure_time >= b.timeout_seconds
        THEN [ret |-> TRUE, cb |-> [b EXCEPT !.state = HALF_OPEN]]
        ELSE [ret |-> FALSE, cb |-> b]
    ELSE [ret |-> FALSE, cb |-> b]

can_attempt(b, t) ==
    IF b.state = CLOSED THEN [ret |-> TRUE, cb |-> b]
    ELSE IF b.state = OPEN THEN
        IF b.last_failure_time # None
           /\ t - b.last_failure_time >= b.timeout_seconds
        THEN [ret |-> TRUE, cb |-> [b EXCEPT !.state = HALF_OPEN]]
        ELSE [ret |-> FALSE, cb |-> b]
    ELSE [ret |-> TRUE, cb |-> b]

----------------------------------------------------------------------------
(* SpecCB: one breaker, driven directly *)

CBTimeouts == {TestTimeout, TIMEOUT_SECONDS}

NoHist == [streak |-> 0, tripped |-> FALSE, last_fail |-> None]

\* the objects a specification does not drive keep these values
IdleRegistryHistory ==
    /\ reg_last = [op |-> "init", name |-> "", url |-> ""]
    /\ reg_hist = <<>>

IdleLimiters ==
    /\ tb = <<>>
    /\ sw = <<>>
    /\ fw = <<>>
    /\ lim_last = [op |-> "init", key |-> "", allowed |-> FALSE,
                   num |-> 0, den |-> 1]
    /\ lim_hist = <<>>

IdleBreaker ==
    /\ cb = CircuitBreaker(FAILURE_THRESHOLD, TIMEOUT_SECONDS)
    /\ cb_last = [op |-> "init", ret |-> TRUE]
    /\ cb_hist = NoHist

InitGateway ==
    /\ services = [n \in {"users", "products", "orders"} |->
                     IF n = "users" THEN <<"http://localhost:8001">>
                     ELSE IF n = "products" THEN <<"http://localhost:8002">>
                     ELSE <<"http://localhost:8003">>]
    /\ current_index = <<>>
    /\ circuit_breakers = <<>>
    /\ inflight = [n \in {"users", "payments"} |-> 0]
    /\ last = [service |-> "", kind |-> "none", status_code |-> 0]
    /\ hist = [n \in {"users", "payments"} |->
                 [streak |-> 0, last_fail |-> None]]

InitCB ==
    /\ now = 0
    /\ \E ft \in 1..MaxThreshold, ts \in CBTimeouts :
          cb = CircuitBreaker(ft, ts)
    /\ cb_last = [op |-> "init", ret |-> TRUE]
    /\ cb_hist = NoHist
    /\ InitGateway
    /\ IdleRegistryHistory
    /\ IdleLimiters

Tick ==
    /\ now + TickStep <= MaxTime
    /\ now' = now + TickStep
    /\ UNCHANGED <<regVars, limVars, cbVars, gwVars>>

RecordSuccess ==
    /\ cb' = record_success(cb)
    /\ cb_last' = [op |-> "record_success", ret |-> TRUE]
    /\ cb_hist' = [cb_hist EXCEPT !.streak = 0]
    /\ UNCHANGED <<regVars, limVars, now, gwVars>>

RecordFailure ==
    /\ cb.failure_count < MaxFailures
    /\ cb' = record_failure(cb, now)
    /\ cb_last' = [op |-> "record_failure", ret |-> TRUE]
    /\ cb_hist' = [streak    |-> cb_hist.streak + 1,
                   tripped   |-> cb_hist.tripped
                                 \/ cb_hist.streak + 1 >= cb.failure_threshold,
                   last_fail |-> now]
    /\ UNCHANGED <<regVars, limVars, now, gwVars>>

CanAttempt ==
    /\ cb' = can_attempt(cb, now).cb
    /\ cb_last' = [op |-> "can_attempt", ret |-> can_attempt(cb, now).ret]
    /\ UNCHANGED <<regVars, limVars, now, cb_hist, gwVars>>

NextCB == Tick \/ RecordSuccess \/ RecordFailure \/ CanAttempt

SpecCB == InitCB /\ [][NextCB]_vars

----------------------------------------------------------------------------
(* Claims about the CircuitBreaker, checked under SpecCB *)

C3_NeverTripped == ~cb_hist.tripped => cb.state = CLOSED

C3_Step ==
    /\ (RecordFailure /\ cb_hist'.streak >= cb.failure_threshold)
          => cb'.state = OPEN
    /\ (CanAttempt /\ cb.state = OPEN
          /\ now - cb_hist.last_fail < cb.timeout_seconds)
          => (cb_last'.ret = FALSE /\ cb' = cb)

\* C3: from a new breaker, the record_failure() call that completes a run
\* of failure_threshold failures with no success between them leaves the
\* state OPEN; can_attempt() on an OPEN breaker returns false and changes
\* nothing while fewer than timeout_seconds have passed since the last
\* recorded failure; a breaker that never saw such a run is CLOSED.
C3_OpensAtThreshold == []C3_NeverTripped /\ [][C3_Step]_vars

C3_Witness ==
    /\ cb_hist.streak = cb.failure_threshold
    /\ cb.failure_threshold > 1
    /\ cb.state = OPEN
    /\ cb_last = [op |-> "can_attempt", ret |-> FALSE]
    /\ now > cb_hist.last_fail

\* C4: on an OPEN breaker can_attempt() returns true exactly when at least
\* timeout_seconds have passed since the most recently recorded failure;
\* when it returns true only the state changes, to HALF_OPEN; when it
\* returns false nothing changes.
C4_OpenCooldown ==
    [][(CanAttempt /\ cb.state = OPEN) =>
          /\ cb_last'.ret = (now - cb_hist.last_fail >= cb.timeout_seconds)
          /\ cb_last'.ret => cb' = [cb EXCEPT !.state = HALF_OPEN]
          /\ ~cb_last'.ret => cb' = cb]_vars

C4_Witness ==
    /\ cb_last = [op |-> "can_attempt", ret |-> TRUE]
    /\ cb.state = HALF_OPEN
    /\ cb.failure_count > cb.failure_threshold
    /\ now - cb_hist.last_fail = cb.timeout_seconds

\* C5: record_success() sets failure_count to 0 in every state, moves
\* HALF_OPEN to CLOSED, leaves CLOSED and OPEN as they are and never
\* changes last_failure_time.
C5_RecordSuccess ==
    [][RecordSuccess =>
          /\ cb'.failure_count = 0
          /\ cb'.state = (IF cb.state = HALF_OPEN THEN CLOSED ELSE cb.state)
          /\ cb'.last_failure_time = cb.last_failure_time]_vars

C5_Witness ==
    /\ cb_last.op = "record_success"
    /\ cb.state = OPEN
    /\ cb.failure_count = 0
    /\ cb.last_failure_time # None

\* C6: in HALF_OPEN one recorded outcome resolves the state: the next
\* record_success() leaves the breaker CLOSED and the next record_failure()
\* leaves it OPEN.
C6_HalfOpenResolves ==
    [][/\ (cb.state = HALF_OPEN /\ RecordSuccess) => cb'.state = CLOSED
       /\ (cb.state = HALF_OPEN /\ RecordFailure) => cb'.state = OPEN]_vars

----------------------------------------------------------------------------
(* ServiceRegistry *)

NoUrl == "None"        \* get_service_url found no backend

\* mutation: the URL is appended without looking for it in the list
register_service_always_appends(svcs, name, url) ==
    LET urls == IF name \in DOMAIN svcs THEN svcs[name] ELSE <<>>
    IN [n \in DOMAIN svcs \cup {name} |->
           IF n = name THEN Append(urls, url) ELSE svcs[n]]

register_service(svcs, name, url) ==
    LET urls == IF name \in DOMAIN svcs THEN svcs[name] ELSE <<>>
        added == IF \E i \in 1..Len(urls) : urls[i] = url
                 THEN urls ELSE Append(urls, url)
    IN [n \in DOMAIN svcs \cup {name} |-> IF n = name THEN added ELSE svcs[n]]

\* mutation: the index is advanced before the URL is read
get_service_url_advances_first(svcs, idx, name) ==
    IF name \notin DOMAIN svcs \/ svcs[name] = <<>>
    THEN [url |-> NoUrl, current_index |-> idx]
    ELSE LET i == IF name \in DOMAIN idx THEN idx[name] ELSE 0
             urls == svcs[name]
             j == (i + 1) % Len(urls)
         IN [url |-> urls[j + 1],
             current_index |->
                 [n \in DOMAIN idx \cup {name} |->
                     IF n = name THEN j ELSE idx[n]]]

\* mutation: the index entry is created before the lookup can fail
get_service_url_creates_index(svcs, idx, name) ==
    LET i == IF name \in DOMAIN idx THEN idx[name] ELSE 0
        idx0 == [n \in DOMAIN idx \cup {name} |->
                    IF n = name THEN i ELSE idx[n]]
    IN IF name \notin DOMAIN svcs \/ svcs[name] = <<>>
       THEN [url |-> NoUrl, current_index |-> idx0]
       ELSE LET urls == svcs[name]
            IN [url |-> urls[i + 1],
                current_index |->
                    [idx0 EXCEPT ![name] = (i + 1) % Len(urls)]]

\* the URL returned and the round-robin indexes after the call
\* mutation: the index advances without wrapping around
get_service_url_no_wrap(svcs, idx, name) ==
    IF name \notin DOMAIN svcs \/ svcs[name] = <<>>
    THEN [url |-> NoUrl, current_index |-> idx]
    ELSE LET i == IF name \in DOMAIN idx THEN idx[name] ELSE 0
             urls == svcs[name]
         IN [url |-> IF i < Len(urls) THEN urls[i + 1] ELSE NoUrl,
             current_index |->
                 [n \in DOMAIN idx \cup {name} |->
                     IF n = name THEN i + 1 ELSE idx[n]]]

get_service_url(svcs, idx, name) ==
    IF name \notin DOMAIN svcs \/ svcs[name] = <<>>
    THEN [url |-> NoUrl, current_index |-> idx]
    ELSE LET i == IF name \in DOMAIN idx THEN idx[name] ELSE 0
             urls == svcs[name]
         IN [url |-> urls[i + 1],
             current_index |->
                 [n \in DOMAIN idx \cup {name} |->
                     IF n = name THEN (i + 1) % Len(urls) ELSE idx[n]]]

\* the breakers after the call; the breaker returned is the entry of name
get_circuit_breaker(cbs, service_name) ==
    IF service_name \in DOMAIN cbs THEN cbs
    ELSE [n \in DOMAIN cbs \cup {service_name} |->
             IF n = service_name
             THEN CircuitBreaker(FAILURE_THRESHOLD, TIMEOUT_SECONDS)
             ELSE cbs[n]]

\* get_all_services asks for the breaker of every registered service
RECURSIVE get_all_services(_, _)
get_all_services(cbs, names) ==
    IF names = {} THEN cbs
    ELSE LET n == CHOOSE x \in names : TRUE
         IN get_all_services(get_circuit_breaker(cbs, n), names \ {n})

----------------------------------------------------------------------------
(* Spec: the registry and APIGateway.proxy_request *)

\* "payments" is a name no backend is ever registered for
ServiceNames == {"users", "payments"}
RegisterNames == {"users"}
Urls == {"http://localhost:8001", "http://localhost:8011"}
Methods == {"GET", "POST", "PUT", "DELETE", "PATCH"}
SupportedMethods == {"GET", "POST", "PUT", "DELETE"}
StatusCodes == {200, 404, 500}
\* body of a response: valid JSON, nothing, or text that is not JSON
Bodies == {"json", "empty", "text"}
Responses == [kind : {"response"}, status_code : StatusCodes, body : Bodies]
TransportErrors ==
    [kind : {"ConnectError", "TimeoutException"}, status_code : {0},
     body : {"empty"}]
Outcomes == Responses \cup TransportErrors

Event(service_name, kind, status_code) ==
    [service |-> service_name, kind |-> kind, status_code |-> status_code]

Init ==
    /\ now = 0
    /\ cb = CircuitBreaker(FAILURE_THRESHOLD, TIMEOUT_SECONDS)
    /\ cb_last = [op |-> "init", ret |-> TRUE]
    /\ cb_hist = NoHist
    /\ InitGateway
    /\ IdleRegistryHistory
    /\ IdleLimiters

RegisterService(name, url) ==
    /\ services' = register_service(services, name, url)
    /\ UNCHANGED <<regVars, limVars, now, cbVars,
                   current_index, circuit_breakers, inflight,
                   last, hist>>

GetServiceUrl(name) ==
    /\ current_index' =
          get_service_url(services, current_index, name).current_index
    /\ UNCHANGED <<regVars, limVars, now, cbVars,
                   services, circuit_breakers, inflight,
                   last, hist>>

GetCircuitBreaker(service_name) ==
    /\ circuit_breakers' = get_circuit_breaker(circuit_breakers, service_name)
    /\ UNCHANGED <<regVars, limVars, now, cbVars,
                   services, current_index, inflight, last, hist>>

GetAllServices ==
    /\ circuit_breakers' = get_all_services(circuit_breakers, DOMAIN services)
    /\ UNCHANGED <<regVars, limVars, now, cbVars,
                   services, current_index, inflight, last, hist>>

\* proxy_request up to the awaited outbound call (lines 215-249): either it
\* fails before any call is made or one call is started and awaited
ProxyRequestStart(service_name, method) ==
    LET cbs1 == get_circuit_breaker(circuit_breakers, service_name)
        ca   == can_attempt(cbs1[service_name], now)
        cbs2 == [cbs1 EXCEPT ![service_name] = ca.cb]
        sel  == get_service_url(services, current_index, service_name)
    IN
    /\ circuit_breakers' = cbs2
    /\ IF ~ca.ret THEN
          /\ last' = Event(service_name, "circuit_open", 503)
          /\ UNCHANGED <<current_index, inflight>>
       ELSE IF sel.url = NoUrl THEN
          /\ current_index' = sel.current_index
          /\ last' = Event(service_name, "not_found", 503)
          /\ UNCHANGED inflight
       ELSE IF method \notin SupportedMethods THEN
          /\ current_index' = sel.current_index
          /\ last' = Event(service_name, "ValueError", 0)
          /\ UNCHANGED inflight
       ELSE
          /\ inflight[service_name] < MaxInFlight
          /\ current_index' = sel.current_index
          /\ inflight' = [inflight EXCEPT ![service_name] = @ + 1]
          /\ last' = Event(service_name, "awaiting", 0)
    /\ UNCHANGED <<regVars, limVars, now, cbVars,
                   services, hist>>

\* mutation: only connection errors are caught, a timeout escapes
ProxyRequestComplete_timeout_escapes(service_name, outcome) ==
    /\ inflight[service_name] > 0
    /\ inflight' = [inflight EXCEPT ![service_name] = @ - 1]
    /\ IF outcome.kind = "response" THEN
          /\ circuit_breakers' =
                [circuit_breakers EXCEPT ![service_name] = record_success(@)]
          /\ hist' = [hist EXCEPT ![service_name].streak = 0]
          /\ last' = IF outcome.body = "text"
                     THEN Event(service_name, "JSONDecodeError", 0)
                     ELSE Event(service_name, "returned", outcome.status_code)
       ELSE
          /\ hist[service_name].streak < MaxFailures
          /\ circuit_breakers' =
                [circuit_breakers EXCEPT
                    ![service_name] = IF outcome.kind = "TimeoutException"
                                      THEN @ ELSE record_failure(@, now)]
          /\ hist' = [hist EXCEPT ![service_name] =
                        [streak |-> @.streak + 1, last_fail |-> now]]
          /\ last' = Event(service_name,
                           IF outcome.kind = "TimeoutException"
                           THEN "TimeoutException" ELSE "unavailable", 503)
    /\ UNCHANGED <<regVars, limVars, now, cbVars,
                   services, current_index>>

\* proxy_request from the completion of the awaited call (lines 253-272)
ProxyRequestComplete(service_name, outcome) ==
    /\ inflight[service_name] > 0
    /\ inflight' = [inflight EXCEPT ![service_name] = @ - 1]
    /\ IF outcome.kind = "response" THEN
          /\ circuit_breakers' =
                [circuit_breakers EXCEPT ![service_name] = record_success(@)]
          /\ hist' = [hist EXCEPT ![service_name].streak = 0]
          /\ last' = IF outcome.body = "text"
                     THEN Event(service_name, "JSONDecodeError", 0)
                     ELSE Event(service_name, "returned", outcome.status_code)
       ELSE
          /\ circuit_breakers[service_name].failure_count < MaxFailures
          /\ circuit_breakers' =
                [circuit_breakers EXCEPT
                    ![service_name] = record_failure(@, now)]
          /\ hist' = [hist EXCEPT ![service_name] =
                        [streak |-> @.streak + 1, last_fail |-> now]]
          /\ last' = Event(service_name, "unavailable", 503)
    /\ UNCHANGED <<regVars, limVars, now, cbVars,
                   services, current_index>>

Next ==
    \/ Tick
    \/ \E name \in RegisterNames, url \in Urls : RegisterService(name, url)
    \/ \E name \in ServiceNames : GetServiceUrl(name)
    \/ \E name \in ServiceNames : GetCircuitBreaker(name)
    \/ GetAllServices
    \/ \E name \in ServiceNames, method \in Methods :
          ProxyRequestStart(name, method)
    \/ \E name \in ServiceNames, outcome \in Outcomes :
          ProxyRequestComplete(name, outcome)

Spec == Init /\ [][Next]_vars

----------------------------------------------------------------------------
(* Claims about proxy_request, checked under Spec *)

\* the breaker a proxy_request for service s would be handed
BreakerOf(s) == get_circuit_breaker(circuit_breakers, s)[s]

Refuses(b, t) == b.state = OPEN /\ t - b.last_failure_time < b.timeout_seconds

Unregistered(s) == s \notin DOMAIN services \/ services[s] = <<>>

\* C1: a proxy_request made while the service's breaker is OPEN and its
\* cooldown has not elapsed fails with the 503 circuit-open signal, selects
\* no backend URL (round-robin indexes unchanged) and starts no outbound call.
C1_CircuitOpenFailsFast ==
    [][\A s \in ServiceNames, m \in Methods :
          (ProxyRequestStart(s, m) /\ Refuses(BreakerOf(s), now)) =>
              /\ last' = Event(s, "circuit_open", 503)
              /\ current_index' = current_index
              /\ inflight' = inflight
              /\ circuit_breakers' = circuit_breakers]_vars

C1_Witness ==
    /\ last = Event("users", "circuit_open", 503)
    /\ circuit_breakers["users"].state = OPEN
    /\ now > circuit_breakers["users"].last_failure_time
    /\ Len(services["users"]) = 2
    /\ current_index["users"] = 1

\* C2: once failure_threshold proxy_request calls to a service have ended in
\* a transport error or timeout with no success between them, a
\* proxy_request to that service made before timeout_seconds have passed
\* since the last of them fails with the circuit-open signal and starts no
\* outbound call.
C2_TripsThroughProxy ==
    [][\A s \in ServiceNames, m \in Methods :
          (/\ ProxyRequestStart(s, m)
           /\ hist[s].streak >= FAILURE_THRESHOLD
           /\ now - hist[s].last_fail < TIMEOUT_SECONDS) =>
              /\ last' = Event(s, "circuit_open", 503)
              /\ inflight' = inflight]_vars

C2_Witness ==
    /\ hist["users"].streak = FAILURE_THRESHOLD
    /\ last = Event("users", "circuit_open", 503)
    /\ now - hist["users"].last_fail = TIMEOUT_SECONDS - TickStep
    /\ inflight["users"] = 0

\* C7: every proxy_request whose backend answers with an HTTP response, of
\* any status, records a success and returns that status code; failure_count
\* grows only when a call ends in a connection error or timeout.
C7_AnyResponseIsSuccess ==
    [][/\ \A s \in ServiceNames, o \in Responses :
             ProxyRequestComplete(s, o) =>
                 /\ circuit_breakers'[s] = record_success(circuit_breakers[s])
                 /\ last' = Event(s, "returned", o.status_code)
       /\ \A s \in DOMAIN circuit_breakers :
             circuit_breakers'[s].failure_count
                > circuit_breakers[s].failure_count
             => \E e \in TransportErrors : ProxyRequestComplete(s, e)]_vars

\* C8: a proxy_request whose outbound call ends in a connection error or
\* timeout records exactly one failure (failure_count + 1, last_failure_time
\* = now), fails with the 503 service-unavailable signal and starts no
\* further outbound call; a proxy_request starts at most one outbound call.
C8_OneFailureNoRetry ==
    [][/\ \A s \in ServiceNames, e \in TransportErrors :
             ProxyRequestComplete(s, e) =>
                 /\ circuit_breakers'[s].failure_count
                       = circuit_breakers[s].failure_count + 1
                 /\ circuit_breakers'[s].last_failure_time = now
                 /\ last' = Event(s, "unavailable", 503)
                 /\ inflight' = [inflight EXCEPT ![s] = @ - 1]
       /\ \A s \in ServiceNames, m \in Methods :
             ProxyRequestStart(s, m) =>
                 \/ inflight' = inflight
                 \/ inflight' = [inflight EXCEPT ![s] = @ + 1]]_vars

C8_Witness ==
    /\ last = Event("users", "unavailable", 503)
    /\ circuit_breakers["users"].failure_count = 2
    /\ circuit_breakers["users"].last_failure_time = now
    /\ now > 0
    /\ inflight["users"] = 0

C9_Untouched ==
    \A s \in ServiceNames :
        Unregistered(s) =>
            /\ s \in DOMAIN circuit_breakers =>
                  /\ circuit_breakers[s].state = CLOSED
                  /\ circuit_breakers[s].failure_count = 0
            /\ s \notin DOMAIN current_index
            /\ inflight[s] = 0

\* C9: a proxy_request for a name with no registered backend fails with the
\* 503 service-not-found signal, starts no outbound call and records
\* neither outcome: the breaker of that name exists afterwards and is
\* CLOSED with failure_count 0, and no round-robin index is created or
\* advanced.
C9_ServiceNotFound ==
    /\ []C9_Untouched
    /\ [][\A s \in ServiceNames, m \in Methods :
             (ProxyRequestStart(s, m) /\ Unregistered(s)) =>
                 /\ last' = Event(s, "not_found", 503)
                 /\ s \in DOMAIN circuit_breakers'
                 /\ circuit_breakers'[s].state = CLOSED
                 /\ circuit_breakers'[s].failure_count = 0
                 /\ current_index' = current_index
                 /\ inflight' = inflight
                 /\ hist' = hist]_vars

C9_Witness ==
    /\ last = Event("payments", "not_found", 503)
    /\ "payments" \in DOMAIN circuit_breakers
    /\ "payments" \notin DOMAIN services
    /\ "users" \in DOMAIN current_index

\* C10: every proxy_request call either returns the result mapping or raises
\* the translated 503 failure signal; no other exception reaches the caller.
C10_OnlyTranslatedFailures ==
    last.kind \in {"none", "awaiting", "returned",
                   "circuit_open", "not_found", "unavailable"}

----------------------------------------------------------------------------
(* SpecReg: the ServiceRegistry driven directly, as test_service_registry  *)
(* does, with a history of the calls made for each service name            *)

MaxRegCalls == 5       \* get_service_url calls counted per service name

RegNames == {"users", "test"}
RegUrls == {"http://localhost:9000", "http://localhost:9001"}

NoPos == None          \* no position returned since the last registration

\* history of a name: calls counts the get_service_url calls made while
\* fresh, i.e. while no registration for the name followed the first call;
\* last_pos is the list position returned by the previous call
NoRegHist == [calls |-> 0, fresh |-> TRUE, last_pos |-> NoPos]

PosOf(urls, url) == (CHOOSE i \in 1..Len(urls) : urls[i] = url) - 1

InitReg ==
    /\ now = 0
    /\ IdleBreaker
    /\ InitGateway
    /\ reg_last = [op |-> "init", name |-> "", url |-> ""]
    /\ reg_hist = [n \in RegNames |-> NoRegHist]
    /\ IdleLimiters

RegistryRegister(name, url) ==
    /\ services' = register_service(services, name, url)
    /\ reg_last' = [op |-> "register_service", name |-> name, url |-> url]
    /\ reg_hist' = [reg_hist EXCEPT ![name] =
                      [calls    |-> @.calls,
                       fresh    |-> @.fresh /\ name \notin DOMAIN current_index,
                       last_pos |-> NoPos]]
    /\ UNCHANGED <<limVars, now, cbVars, current_index, circuit_breakers,
                   inflight, last, hist>>

RegistryGetUrl(name) ==
    LET sel == get_service_url(services, current_index, name) IN
    /\ reg_hist[name].calls < MaxRegCalls
    /\ current_index' = sel.current_index
    /\ reg_last' = [op |-> "get_service_url", name |-> name, url |-> sel.url]
    /\ reg_hist' = [reg_hist EXCEPT ![name] =
                      IF sel.url = NoUrl THEN @
                      ELSE [calls    |-> IF @.fresh THEN @.calls + 1 ELSE @.calls,
                            fresh    |-> @.fresh,
                            last_pos |-> PosOf(services[name], sel.url)]]
    /\ UNCHANGED <<limVars, now, cbVars, services, circuit_breakers,
                   inflight, last, hist>>

NextReg ==
    \/ \E name \in RegNames, url \in RegUrls : RegistryRegister(name, url)
    \/ \E name \in RegNames : RegistryGetUrl(name)
    \/ \E name \in RegNames : GetCircuitBreaker(name)

SpecReg == InitReg /\ [][NextReg]_vars

----------------------------------------------------------------------------
(* Claims about the ServiceRegistry, checked under SpecReg *)

\* C11: with n >= 1 URLs registered for a service and no registration for
\* it since before its first selection, the k-th get_service_url call
\* returns the URL at position (k-1) mod n of the list; and whenever no
\* registration for the service lies between two successive calls, the
\* second returns the position that follows, cyclically, the one the first
\* returned (so n successive calls return every URL once and two URLs
\* alternate).
C11_RoundRobin ==
    [][\A name \in RegNames :
          (RegistryGetUrl(name) /\ ~Unregistered(name)) =>
              LET urls == services[name]
                  n == Len(urls)
                  h == reg_hist[name]
              IN /\ reg_last'.url \in {urls[i] : i \in 1..n}
                 /\ h.fresh => reg_last'.url = urls[(h.calls % n) + 1]
                 /\ h.last_pos # NoPos =>
                       reg_last'.url = urls[((h.last_pos + 1) % n) + 1]]_vars

C11_Witness ==
    /\ reg_last = [op |-> "get_service_url", name |-> "test",
                   url |-> "http://localhost:9000"]
    /\ services["test"] = <<"http://localhost:9000", "http://localhost:9001">>
    /\ reg_hist["test"] = [calls |-> 3, fresh |-> TRUE, last_pos |-> 0]

NoDuplicates(urls) ==
    \A i, j \in 1..Len(urls) : urls[i] = urls[j] => i = j

IsPrefix(old, new) ==
    /\ Len(old) <= Len(new)
    /\ \A i \in 1..Len(old) : new[i] = old[i]

C12_NoDuplicates == \A name \in DOMAIN services : NoDuplicates(services[name])

\* C12: registering a (name, url) pair again right after it was registered
\* changes nothing; no service list ever holds a URL twice; a registration
\* keeps every list as a prefix of the new one (earlier URLs keep their
\* places) and changes only the list of its own name, by at most the new
\* URL at the end; it changes no round-robin index and no breaker.
C12_RegisterIdempotent ==
    /\ []C12_NoDuplicates
    /\ [][\A name \in RegNames, url \in RegUrls :
             RegistryRegister(name, url) =>
                 /\ register_service(services', name, url) = services'
                 /\ \A n \in DOMAIN services :
                       /\ n \in DOMAIN services'
                       /\ IsPrefix(services[n], services'[n])
                       /\ n # name => services'[n] = services[n]
                 /\ DOMAIN services' = DOMAIN services \cup {name}
                 /\ \E i \in 1..Len(services'[name]) :
                       services'[name][i] = url
                 /\ Len(services'[name]) <=
                       (IF name \in DOMAIN services
                        THEN Len(services[name]) ELSE 0) + 1
                 /\ current_index' = current_index
                 /\ circuit_breakers' = circuit_breakers]_vars

C12_Witness ==
    /\ reg_last = [op |-> "register_service", name |-> "test",
                   url |-> "http://localhost:9000"]
    /\ services["test"] = <<"http://localhost:9000", "http://localhost:9001">>
    /\ "test" \in DOMAIN current_index
    /\ current_index["test"] = 1
    /\ "test" \in DOMAIN circuit_breakers

----------------------------------------------------------------------------
(* Rate limiters of 13_rate_limiting.py.  The limiter clock advances in    *)
(* steps of one time unit.  Token amounts are counted in units of          *)
(* 1/TokenScale token and refill_rate in such units per time unit, so that *)
(* the fractional refills of the source are computed exactly.              *)

MaxLimTime == 3        \* the limiter clock stops here
MaxCapacity == 2       \* capacity ranges over 1..MaxCapacity (tokens)
MaxCost == 2           \* tokens_needed ranges over 0..MaxCost (tokens)

TokenScale == 2
RefillRates == {1, 2}  \* 1/2 token and 1 token per time unit
Keys == {"a", "b"}

Min(x, y) == IF x <= y THEN x ELSE y
Max(x, y) == IF x >= y THEN x ELSE y

LimCall(op, key, allowed, num, den) ==
    [op |-> op, key |-> key, allowed |-> allowed, num |-> num, den |-> den]

(* TokenBucketLimiter *)

TokenBucketLimiter(capacity, refill_rate) ==
    [capacity |-> capacity, refill_rate |-> refill_rate, buckets |-> <<>>]

\* the buckets after _get_bucket(key); the bucket returned is the entry of key
get_bucket(lim, key, t) ==
    IF key \in DOMAIN lim.buckets THEN lim.buckets
    ELSE [k \in DOMAIN lim.buckets \cup {key} |->
             IF k = key
             THEN [tokens |-> lim.capacity * TokenScale, last_update |-> t]
             ELSE lim.buckets[k]]

\* mutation: the refill is not capped at capacity
refill_tokens_uncapped(lim, bucket, t) ==
    [tokens      |-> bucket.tokens + (t - bucket.last_update) * lim.refill_rate,
     last_update |-> t]

refill_tokens(lim, bucket, t) ==
    [tokens      |-> Min(lim.capacity * TokenScale,
                         bucket.tokens
                           + (t - bucket.last_update) * lim.refill_rate),
     last_update |-> t]

\* mutation: the tokens are subtracted before the test
TokenBucket_allow_request_spends_first(lim, key, tokens_needed, t) ==
    LET bucket == refill_tokens(lim, get_bucket(lim, key, t)[key], t)
        left   == bucket.tokens - tokens_needed * TokenScale
        ok     == left >= 0
        after  == [bucket EXCEPT !.tokens = Max(0, left)]
    IN [ret |-> ok,
        lim |-> [lim EXCEPT !.buckets =
                    [k \in DOMAIN lim.buckets \cup {key} |->
                        IF k = key THEN after ELSE lim.buckets[k]]]]

\* mutation: one token more than needed must be in the bucket
TokenBucket_allow_request_gt(lim, key, tokens_needed, t) ==
    LET bucket == refill_tokens(lim, get_bucket(lim, key, t)[key], t)
        ok     == bucket.tokens > tokens_needed * TokenScale
        after  == IF ok
                  THEN [bucket EXCEPT
                           !.tokens = @ - tokens_needed * TokenScale]
                  ELSE bucket
    IN [ret |-> ok,
        lim |-> [lim EXCEPT !.buckets =
                    [k \in DOMAIN lim.buckets \cup {key} |->
                        IF k = key THEN after ELSE lim.buckets[k]]]]

\* allow_request returns a boolean and changes the limiter: both are given
TokenBucket_allow_request(lim, key, tokens_needed, t) ==
    LET bucket == refill_tokens(lim, get_bucket(lim, key, t)[key], t)
        ok     == bucket.tokens >= tokens_needed * TokenScale
        after  == IF ok
                  THEN [bucket EXCEPT
                           !.tokens = @ - tokens_needed * TokenScale]
                  ELSE bucket
    IN [ret |-> ok,
        lim |-> [lim EXCEPT !.buckets =
                    [k \in DOMAIN lim.buckets \cup {key} |->
                        IF k = key THEN after ELSE lim.buckets[k]]]]

\* get_wait_time returns num/den time units and changes the limiter
get_wait_time(lim, key, t) ==
    LET bucket == refill_tokens(lim, get_bucket(lim, key, t)[key], t)
        after  == [lim EXCEPT !.buckets =
                     [k \in DOMAIN lim.buckets \cup {key} |->
                         IF k = key THEN bucket ELSE lim.buckets[k]]]
    IN IF bucket.tokens >= TokenScale
       THEN [num |-> 0, den |-> 1, lim |-> after]
       ELSE [num |-> TokenScale - bucket.tokens, den |-> lim.refill_rate,
             lim |-> after]

(* SpecTB: one TokenBucketLimiter; the history of a key holds             *)
(*   burst        the unit-cost requests admitted so far, while nothing    *)
(*                but unit-cost allow_request calls were made for the key  *)
(*                and no time has passed (NoBurst afterwards)              *)
(*   rejected_at  when its latest unit-cost request was rejected, while no *)
(*                request of the key was admitted since                    *)
(*   readmitted   the latest call for the key was a unit-cost request      *)
(*                admitted after such a rejection                          *)

NoBurst == None

NoKeyHist == [burst |-> 0, rejected_at |-> None, readmitted |-> FALSE]

InitTB ==
    /\ now = 0
    /\ IdleBreaker
    /\ InitGateway
    /\ IdleRegistryHistory
    /\ \E capacity \in 1..MaxCapacity, refill_rate \in RefillRates :
          tb = TokenBucketLimiter(capacity, refill_rate)
    /\ sw = <<>>
    /\ fw = <<>>
    /\ lim_last = LimCall("init", "", FALSE, 0, 1)
    /\ lim_hist = [k \in Keys |-> NoKeyHist]

\* time passes: a key seen from now on is no longer in its first burst
TBTick ==
    /\ now < MaxLimTime
    /\ now' = now + 1
    /\ lim_hist' = [k \in Keys |->
                      IF k \in DOMAIN tb.buckets
                      THEN [lim_hist[k] EXCEPT !.burst = NoBurst]
                      ELSE lim_hist[k]]
    /\ UNCHANGED <<regVars, cbVars, gwVars, tb, sw, fw, lim_last>>

TBAllowRequest(key, tokens_needed) ==
    LET r == TokenBucket_allow_request(tb, key, tokens_needed, now)
        h == lim_hist[key]
    IN
    /\ tb' = r.lim
    /\ lim_last' = LimCall("allow_request", key, r.ret, 0, 1)
    /\ lim_hist' = [lim_hist EXCEPT ![key] =
          [burst       |-> IF h.burst = NoBurst \/ tokens_needed # 1
                           THEN NoBurst
                           ELSE IF r.ret THEN h.burst + 1 ELSE h.burst,
           rejected_at |-> IF r.ret THEN None
                           ELSE IF tokens_needed = 1 THEN now
                           ELSE h.rejected_at,
           readmitted  |-> r.ret /\ tokens_needed = 1
                           /\ h.rejected_at # None]]
    /\ UNCHANGED <<regVars, now, cbVars, gwVars, sw, fw>>

TBGetWaitTime(key) ==
    LET r == get_wait_time(tb, key, now)
        h == lim_hist[key]
    IN
    /\ tb' = r.lim
    /\ lim_last' = LimCall("get_wait_time", key, FALSE, r.num, r.den)
    /\ lim_hist' = [lim_hist EXCEPT ![key] =
          [burst       |-> NoBurst,
           rejected_at |-> h.rejected_at,
           readmitted  |-> FALSE]]
    /\ UNCHANGED <<regVars, now, cbVars, gwVars, sw, fw>>

NextTB ==
    \/ TBTick
    \/ \E key \in Keys, tokens_needed \in 0..MaxCost :
          TBAllowRequest(key, tokens_needed)
    \/ \E key \in Keys : TBGetWaitTime(key)

SpecTB == InitTB /\ [][NextTB]_vars

----------------------------------------------------------------------------
(* Claims about the TokenBucketLimiter, checked under SpecTB *)

\* C13: after every allow_request (tokens_needed >= 0) and get_wait_time
\* call, under a non-decreasing clock, every bucket has
\* 0 <= tokens <= capacity.
C13_TokensWithinCapacity ==
    \A k \in DOMAIN tb.buckets :
        /\ 0 <= tb.buckets[k].tokens
        /\ tb.buckets[k].tokens <= tb.capacity * TokenScale

C13_Witness ==
    /\ tb.capacity = 1
    /\ tb.refill_rate = 2
    /\ lim_hist["a"].rejected_at = 0
    /\ lim_last.op = "get_wait_time"
    /\ lim_last.key = "a"
    /\ tb.buckets["a"] = [tokens |-> TokenScale, last_update |-> 2]
    /\ "b" \in DOMAIN tb.buckets
    /\ tb.buckets["b"].tokens = 0

\* the bucket of key as allow_request finds it, and its tokens once refilled
BucketOf(k) ==
    IF k \in DOMAIN tb.buckets THEN tb.buckets[k]
    ELSE [tokens |-> tb.capacity * TokenScale, last_update |-> now]

Refilled(k) ==
    Min(tb.capacity * TokenScale,
        BucketOf(k).tokens + (now - BucketOf(k).last_update) * tb.refill_rate)

\* C14: allow_request(key, n) refills first (tokens = min(capacity, tokens +
\* elapsed * refill_rate), last_update = now), returns true exactly when the
\* refilled tokens >= n, then subtracting exactly n, and subtracts nothing
\* when it returns false; no other bucket changes.
C14_RefillThenSpend ==
    [][\A k \in Keys, n \in 0..MaxCost :
          TBAllowRequest(k, n) =>
              /\ lim_last'.allowed = (Refilled(k) >= n * TokenScale)
              /\ tb'.buckets[k].last_update = now
              /\ tb'.buckets[k].tokens =
                    (IF lim_last'.allowed
                     THEN Refilled(k) - n * TokenScale ELSE Refilled(k))
              /\ DOMAIN tb'.buckets = DOMAIN tb.buckets \cup {k}
              /\ \A j \in DOMAIN tb.buckets \ {k} :
                    tb'.buckets[j] = tb.buckets[j]]_vars

C14_Witness ==
    /\ lim_last = LimCall("allow_request", "a", FALSE, 0, 1)
    /\ tb.refill_rate = 1
    /\ tb.buckets["a"] = [tokens |-> 1, last_update |-> 1]
    /\ now = 1

\* C15: for a key seen for the first time, with no time passing, unit-cost
\* requests are admitted until capacity of them were admitted and rejected
\* from then on; after a rejected unit-cost request, the next unit-cost
\* request is admitted once elapsed * refill_rate >= 1 since the rejection.
C15_BurstThenRefill ==
    [][\A k \in Keys :
          TBAllowRequest(k, 1) =>
              /\ lim_hist[k].burst # NoBurst =>
                    lim_last'.allowed = (lim_hist[k].burst < tb.capacity)
              /\ (/\ lim_hist[k].rejected_at # None
                  /\ (now - lim_hist[k].rejected_at) * tb.refill_rate
                        >= TokenScale)
                    => lim_last'.allowed]_vars

C15_Witness ==
    /\ tb.capacity = 2
    /\ tb.refill_rate = 1
    /\ lim_hist["a"].readmitted
    /\ lim_last = LimCall("allow_request", "a", TRUE, 0, 1)
    /\ tb.buckets["a"] = [tokens |-> 0, last_update |-> 2]
    /\ lim_hist["b"].burst = tb.capacity
    /\ lim_hist["b"].rejected_at = 2

----------------------------------------------------------------------------
(* SlidingWindowLimiter *)

MaxRequestsChoices == {1, 2}

WindowChoices == {1, 2}

\* time that may pass between the two clock reads of one call
ReadGaps == {0, 1}

SlidingWindowLimiter(max_requests, window_seconds) ==
    [max_requests |-> max_requests, window_seconds |-> window_seconds,
     requests |-> <<>>]

\* requests is a defaultdict(deque): reading requests[key] creates the entry
Touch(requests, key) ==
    IF key \in DOMAIN requests THEN requests
    ELSE [k \in DOMAIN requests \cup {key} |->
             IF k = key THEN <<>> ELSE requests[k]]

\* the loop of _cleanup_old_requests
RECURSIVE PopOld(_, _)
PopOld(q, cutoff_time) ==
    IF q # <<>> /\ Head(q) < cutoff_time
    THEN PopOld(Tail(q), cutoff_time) ELSE q

\* mutation: a request exactly window_seconds old is dropped too
RECURSIVE PopOldOrEqual(_, _)
PopOldOrEqual(q, cutoff_time) ==
    IF q # <<>> /\ Head(q) <= cutoff_time
    THEN PopOldOrEqual(Tail(q), cutoff_time) ELSE q

cleanup_old_requests_le(lim, key, t) ==
    LET reqs == Touch(lim.requests, key)
    IN [lim EXCEPT !.requests =
           [reqs EXCEPT ![key] = PopOldOrEqual(@, t - lim.window_seconds)]]

\* the limiter after _cleanup_old_requests(key) read the clock at t
cleanup_old_requests(lim, key, t) ==
    LET reqs == Touch(lim.requests, key)
    IN [lim EXCEPT !.requests =
           [reqs EXCEPT ![key] = PopOld(@, t - lim.window_seconds)]]

\* allow_request reads the clock twice: t1 in the cleanup, t2 in the append
SlidingWindow_allow_request(lim, key, t1, t2) ==
    LET cleaned == cleanup_old_requests(lim, key, t1)
        ok == Len(cleaned.requests[key]) < lim.max_requests
    IN [ret |-> ok,
        lim |-> IF ok
                THEN [cleaned EXCEPT !.requests[key] = Append(@, t2)]
                ELSE cleaned]

\* mutation: the count is taken without dropping the old requests
SlidingWindow_get_remaining_requests_stale(lim, key, t) ==
    LET reqs == Touch(lim.requests, key)
    IN [ret |-> Max(0, lim.max_requests - Len(reqs[key])),
        lim |-> [lim EXCEPT !.requests = reqs]]

SlidingWindow_get_remaining_requests(lim, key, t) ==
    LET cleaned == cleanup_old_requests(lim, key, t)
    IN [ret |-> Max(0, lim.max_requests - Len(cleaned.requests[key])),
        lim |-> cleaned]

get_reset_time(lim, key, t) ==
    LET reqs == Touch(lim.requests, key)
        after == [lim EXCEPT !.requests = reqs]
    IN IF reqs[key] = <<>> THEN [ret |-> 0, lim |-> after]
       ELSE [ret |-> Max(0, Head(reqs[key]) + lim.window_seconds - t),
             lim |-> after]

(* SpecSW: one SlidingWindowLimiter; the history of a key holds           *)
(*   admitted     the times at which its requests were admitted, in order  *)
(*   rejected_at  when its latest allow_request was rejected, if it was    *)
(*   retry_at     the instant at which the reset time, read at the instant *)
(*                of that rejection, will have elapsed                     *)

NoWindowHist == [admitted |-> <<>>, rejected_at |-> None, retry_at |-> None]

InitSW ==
    /\ now = 0
    /\ IdleBreaker
    /\ InitGateway
    /\ IdleRegistryHistory
    /\ tb = <<>>
    /\ \E max_requests \in MaxRequestsChoices, window_seconds \in WindowChoices :
          sw = SlidingWindowLimiter(max_requests, window_seconds)
    /\ fw = <<>>
    /\ lim_last = LimCall("init", "", FALSE, 0, 1)
    /\ lim_hist = [k \in Keys |-> NoWindowHist]

SWTick ==
    /\ now < MaxLimTime
    /\ now' = now + 1
    /\ UNCHANGED <<regVars, limVars, cbVars, gwVars>>

\* gap is the time that passes between the two clock reads of the call
SWAllowRequest(key, gap) ==
    LET r == SlidingWindow_allow_request(sw, key, now, now + gap) IN
    /\ now + gap <= MaxLimTime
    /\ ~r.ret => gap = 0
    /\ now' = now + gap
    /\ sw' = r.lim
    /\ lim_last' = LimCall("allow_request", key, r.ret, 0, 1)
    /\ lim_hist' = [lim_hist EXCEPT ![key] =
          [admitted    |-> IF r.ret THEN Append(@.admitted, now + gap)
                           ELSE @.admitted,
           rejected_at |-> IF r.ret THEN None ELSE now,
           retry_at    |-> None]]
    /\ UNCHANGED <<regVars, cbVars, gwVars, tb, fw>>

SWGetRemainingRequests(key) ==
    LET r == SlidingWindow_get_remaining_requests(sw, key, now) IN
    /\ sw' = r.lim
    /\ lim_last' = LimCall("get_remaining_requests", key, FALSE, r.ret, 1)
    /\ UNCHANGED <<regVars, now, cbVars, gwVars, tb, fw, lim_hist>>

SWGetResetTime(key) ==
    LET r == get_reset_time(sw, key, now) IN
    /\ sw' = r.lim
    /\ lim_last' = LimCall("get_reset_time", key, FALSE, r.ret, 1)
    /\ lim_hist' = [lim_hist EXCEPT ![key].retry_at =
          IF lim_hist[key].rejected_at = now THEN now + r.ret ELSE @]
    /\ UNCHANGED <<regVars, now, cbVars, gwVars, tb, fw>>

NextSW ==
    \/ SWTick
    \/ \E key \in Keys, gap \in ReadGaps : SWAllowRequest(key, gap)
    \/ \E key \in Keys : SWGetRemainingRequests(key)
    \/ \E key \in Keys : SWGetResetTime(key)

SpecSW == InitSW /\ [][NextSW]_vars

\* the admissions of key whose admission time lies in [t - window_seconds, t]
AdmittedIn(key, t) ==
    {i \in 1..Len(lim_hist[key].admitted) :
        /\ t - sw.window_seconds <= lim_hist[key].admitted[i]
        /\ lim_hist[key].admitted[i] <= t}

\* C16: for every key and every instant t, the number of requests admitted
\* by SlidingWindowLimiter.allow_request with admission time in
\* [t - window_seconds, t] is at most max_requests.
C16_SlidingWindowBound ==
    \A key \in Keys : \A t \in 0..(MaxLimTime + sw.window_seconds) :
        Cardinality(AdmittedIn(key, t)) <= sw.max_requests

\* max_requests admissions of a key lie in one window that spans an eviction
\* of that key: the oldest of them is no longer the first ever admitted
C16_Witness ==
    \E key \in Keys : \E t \in 0..MaxLimTime :
        /\ Cardinality(AdmittedIn(key, t)) = sw.max_requests
        /\ Len(lim_hist[key].admitted) > sw.max_requests
        /\ lim_last.op = "allow_request" /\ lim_last.key = key
        /\ ~lim_last.allowed

\* C17: get_remaining_requests(key) returns max(0, max_requests - m), m the
\* number of admitted requests of the key still inside the window; it is 0
\* right after a rejected allow_request of the key and max_requests for a
\* key never seen.
C17_RemainingRequests ==
    [][\A key \in Keys :
          SWGetRemainingRequests(key) =>
              /\ lim_last'.num =
                     Max(0, sw.max_requests - Cardinality(AdmittedIn(key, now)))
              /\ lim_hist[key].rejected_at = now => lim_last'.num = 0
              /\ key \notin DOMAIN sw.requests => lim_last'.num = sw.max_requests
      ]_vars

\* the remaining count was read after an admitted request left the window
C17_Witness ==
    \E key \in Keys :
        /\ lim_last.op = "get_remaining_requests" /\ lim_last.key = key
        /\ lim_last.num > 0
        /\ Len(lim_hist[key].admitted) > Cardinality(AdmittedIn(key, now))
        /\ AdmittedIn(key, now) # {}

\* the recorded timestamps of key that are still within the window at now
Surviving(key) ==
    {lim_hist[key].admitted[i] : i \in AdmittedIn(key, now)}

Oldest(S) == CHOOSE s \in S : \A x \in S : s <= x

\* C18: get_reset_time(key), called at any time after any sequence of calls,
\* returns max(0, s + window_seconds - now), s the oldest recorded timestamp
\* of the key still within [now - window_seconds, now], and 0 when no
\* timestamp survives.
C18_ResetTimeOfOldestSurviving ==
    [][\A key \in Keys :
          SWGetResetTime(key) =>
              lim_last'.num =
                  IF Surviving(key) = {} THEN 0
                  ELSE Max(0, Oldest(Surviving(key)) + sw.window_seconds - now)
      ]_vars

----------------------------------------------------------------------------
(* FixedWindowCounter *)

FixedWindowCounter(max_requests, window_seconds) ==
    [max_requests |-> max_requests, window_seconds |-> window_seconds,
     windows |-> <<>>]

\* int(now / window_seconds) * window_seconds, for a clock that is not negative
window_start_of(lim, t) == (t \div lim.window_seconds) * lim.window_seconds

\* mutation: only a key without a stored window gets a new one
get_current_window_no_reset(lim, key, t) ==
    IF key \notin DOMAIN lim.windows
    THEN [lim EXCEPT !.windows =
             [k \in DOMAIN lim.windows \cup {key} |->
                 IF k = key
                 THEN [start |-> window_start_of(lim, t), count |-> 0]
                 ELSE lim.windows[k]]]
    ELSE lim

\* the counter after _get_current_window(key) read the clock at t
get_current_window(lim, key, t) ==
    IF \/ key \notin DOMAIN lim.windows
       \/ lim.windows[key].start # window_start_of(lim, t)
    THEN [lim EXCEPT !.windows =
             [k \in DOMAIN lim.windows \cup {key} |->
                 IF k = key
                 THEN [start |-> window_start_of(lim, t), count |-> 0]
                 ELSE lim.windows[k]]]
    ELSE lim

\* mutation: a request is admitted while the count is at most max_requests
FixedWindow_allow_request_le(lim, key, t) ==
    LET cur == get_current_window(lim, key, t)
        ok == cur.windows[key].count <= lim.max_requests
    IN [ret |-> ok,
        lim |-> IF ok THEN [cur EXCEPT !.windows[key].count = @ + 1]
                ELSE cur]

\* mutation: an admitted request is not counted
FixedWindow_allow_request_uncounted(lim, key, t) ==
    LET cur == get_current_window(lim, key, t)
    IN [ret |-> cur.windows[key].count < lim.max_requests, lim |-> cur]

FixedWindow_allow_request(lim, key, t) ==
    LET cur == get_current_window(lim, key, t)
        ok == cur.windows[key].count < lim.max_requests
    IN [ret |-> ok,
        lim |-> IF ok THEN [cur EXCEPT !.windows[key].count = @ + 1]
                ELSE cur]

FixedWindow_get_remaining_requests(lim, key, t) ==
    LET cur == get_current_window(lim, key, t)
    IN [ret |-> Max(0, lim.max_requests - cur.windows[key].count),
        lim |-> cur]

(* SpecFW: one FixedWindowCounter; the history of a key holds             *)
(*   admitted     the times at which its requests were admitted, those of  *)
(*                the last window_seconds only, in order                   *)
(*   rejected_at  when its latest allow_request was rejected, if it was    *)
(*   after        the rejected_at that its latest admission followed       *)

NoCounterHist == [admitted |-> <<>>, rejected_at |-> None, after |-> None]

InitFW ==
    /\ now = 0
    /\ IdleBreaker
    /\ InitGateway
    /\ IdleRegistryHistory
    /\ tb = <<>>
    /\ sw = <<>>
    /\ \E max_requests \in MaxRequestsChoices, window_seconds \in WindowChoices :
          fw = FixedWindowCounter(max_requests, window_seconds)
    /\ lim_last = LimCall("init", "", FALSE, 0, 1)
    /\ lim_hist = [k \in Keys |-> NoCounterHist]

\* the times that are at most window_seconds before t
RecentAt(t, times) ==
    SelectSeq(times, LAMBDA a : a >= t - fw.window_seconds)

FWTick ==
    /\ now < MaxLimTime
    /\ now' = now + 1
    /\ lim_hist' = [k \in Keys |->
          [lim_hist[k] EXCEPT !.admitted = RecentAt(now + 1, @)]]
    /\ UNCHANGED <<regVars, cbVars, gwVars, tb, sw, fw, lim_last>>

FWAllowRequest(key) ==
    LET r == FixedWindow_allow_request(fw, key, now) IN
    /\ fw' = r.lim
    /\ lim_last' = LimCall("allow_request", key, r.ret, 0, 1)
    /\ lim_hist' = [lim_hist EXCEPT ![key] =
          [admitted    |-> IF r.ret THEN Append(@.admitted, now)
                           ELSE @.admitted,
           rejected_at |-> IF r.ret THEN None ELSE now,
           after       |-> IF r.ret THEN @.rejected_at ELSE None]]
    /\ UNCHANGED <<regVars, now, cbVars, gwVars, tb, sw>>

FWGetRemainingRequests(key) ==
    LET r == FixedWindow_get_remaining_requests(fw, key, now) IN
    /\ fw' = r.lim
    /\ lim_last' = LimCall("get_remaining_requests", key, FALSE, r.ret, 1)
    /\ UNCHANGED <<regVars, now, cbVars, gwVars, tb, sw, lim_hist>>

NextFW ==
    \/ FWTick
    \/ \E key \in Keys : FWAllowRequest(key)
    \/ \E key \in Keys : FWGetRemainingRequests(key)

SpecFW == InitFW /\ [][NextFW]_vars

\* the counter of key for the window that contains now
CurrentCount(key) ==
    IF /\ key \in DOMAIN fw.windows
       /\ fw.windows[key].start = window_start_of(fw, now)
    THEN fw.windows[key].count ELSE 0

\* the admissions of key made in the window that starts at start
AdmittedInWindow(key, start) ==
    {i \in 1..Len(lim_hist[key].admitted) :
        window_start_of(fw, lim_hist[key].admitted[i]) = start}

C19_CountWithinLimit ==
    \A key \in Keys :
        /\ key \in DOMAIN fw.windows =>
              /\ 0 <= fw.windows[key].count
              /\ fw.windows[key].count <= fw.max_requests
        /\ \A t \in 0..MaxLimTime :
              Cardinality(AdmittedInWindow(key, window_start_of(fw, t)))
                  <= fw.max_requests

\* C19: allow_request returns true and increments the key's counter exactly
\* when the counter for the current window is below max_requests, and
\* returns false without incrementing otherwise; 0 <= count <= max_requests
\* always, at most max_requests requests are admitted per epoch-aligned
\* window, and get_remaining_requests is 0 right after a rejection.
C19_FixedWindowAdmission ==
    /\ []C19_CountWithinLimit
    /\ [][\A key \in Keys :
             /\ FWAllowRequest(key) =>
                   /\ lim_last'.allowed <=> CurrentCount(key) < fw.max_requests
                   /\ fw'.windows[key].count =
                         IF lim_last'.allowed THEN CurrentCount(key) + 1
                         ELSE CurrentCount(key)
             /\ FWGetRemainingRequests(key) =>
                   (lim_hist[key].rejected_at = now => lim_last'.num = 0)
       ]_vars

\* a request was rejected in a window later than the first, and the
\* remaining count was read right after a rejection
C19_Witness ==
    \E key \in Keys :
        /\ lim_last.op = "get_remaining_requests" /\ lim_last.key = key
        /\ lim_hist[key].rejected_at = now
        /\ window_start_of(fw, now) > 0
        /\ Cardinality(AdmittedInWindow(key, window_start_of(fw, now)))
               = fw.max_requests

\* C20: the stored window start is floor(now / window_seconds) *
\* window_seconds, the first allow_request or get_remaining_requests of a
\* key made in a window different from the stored one resets the counter to
\* 0 before testing, and after a rejection the first request made once the
\* window boundary has passed is admitted.
C20_FixedWindowReset ==
    [][\A key \in Keys :
          LET stale == /\ key \in DOMAIN fw.windows
                       /\ fw.windows[key].start # window_start_of(fw, now)
              rejected_before ==
                       /\ lim_hist[key].rejected_at # None
                       /\ window_start_of(fw, lim_hist[key].rejected_at)
                              # window_start_of(fw, now)
          IN /\ FWAllowRequest(key) \/ FWGetRemainingRequests(key) =>
                   fw'.windows[key].start
                       = (now \div fw.window_seconds) * fw.window_seconds
             /\ FWAllowRequest(key) /\ stale =>
                   lim_last'.allowed /\ fw'.windows[key].count = 1
             /\ FWGetRemainingRequests(key) /\ stale =>
                   /\ fw'.windows[key].count = 0
                   /\ lim_last'.num = fw.max_requests
             /\ FWAllowRequest(key) /\ rejected_before => lim_last'.allowed
      ]_vars

\* a key rejected in one window was admitted by its first request in a
\* later window
C20_Witness ==
    \E key \in Keys :
        /\ lim_last.op = "allow_request" /\ lim_last.key = key
        /\ lim_last.allowed
        /\ fw.windows[key].count = 1
        /\ lim_hist[key].after # None
        /\ window_start_of(fw, lim_hist[key].after) # fw.windows[key].start

\* the admissions of key made in the time span [from, to]
AdmittedBetween(key, from, to) ==
    {i \in 1..Len(lim_hist[key].admitted) :
        from <= lim_hist[key].admitted[i] /\ lim_hist[key].admitted[i] <= to}

\* C21: for one key, in no time span of length at most window_seconds are
\* more than 2 * max_requests requests admitted (every such span ends at
\* some instant now); 2 * max_requests admissions within a span shorter
\* than window_seconds that straddles a window boundary are reachable.
C21_BoundaryBurst ==
    \A key \in Keys :
        Cardinality(AdmittedBetween(key, now - fw.window_seconds, now))
            <= 2 * fw.max_requests

\* 2 * max_requests admissions of one key lie in a span shorter than
\* window_seconds, max_requests of them on each side of a window boundary
C21_Witness ==
    \E key \in Keys : \E from \in 0..MaxLimTime :
        /\ now - from < fw.window_seconds
        /\ window_start_of(fw, from) < window_start_of(fw, now)
        /\ Cardinality(AdmittedBetween(key, from, now)) = 2 * fw.max_requests
        /\ Cardinality(AdmittedInWindow(key, window_start_of(fw, now)))
               = fw.max_requests

\* C22: a client rejected by SlidingWindowLimiter.allow_request(key) that
\* reads get_reset_time(key) at that moment and retries once exactly that
\* reported time has elapsed, with no other request for the key in between,
\* is admitted.
C22_RetryAfterResetTime ==
    [][\A key \in Keys : \A gap \in ReadGaps :
          SWAllowRequest(key, gap) /\ lim_hist[key].retry_at = now =>
              lim_last'.allowed
      ]_vars

----------------------------------------------------------------------------
(* SpecTBRetry: the client of /token-bucket/expensive on one                *)
(* TokenBucketLimiter. A rejected allow_request is followed by              *)
(* get_wait_time, and the same request is made again when the reported      *)
(* time has elapsed. The history of a key holds                             *)
(*   cost         the tokens_needed of its latest allow_request, if that    *)
(*                was rejected                                              *)
(*   rejected_at  when that rejection happened                              *)
(*   retry_at     the instant at which the wait time, read at the instant   *)
(*                of that rejection, will have elapsed                      *)

NoRetryHist == [cost |-> None, rejected_at |-> None, retry_at |-> None]

InitTBRetry ==
    /\ now = 0
    /\ IdleBreaker
    /\ InitGateway
    /\ IdleRegistryHistory
    /\ \E capacity \in 1..MaxCapacity, refill_rate \in RefillRates :
          tb = TokenBucketLimiter(capacity, refill_rate)
    /\ sw = <<>>
    /\ fw = <<>>
    /\ lim_last = LimCall("init", "", FALSE, 0, 1)
    /\ lim_hist = [k \in Keys |-> NoRetryHist]

RetryTick ==
    /\ now < MaxLimTime
    /\ now' = now + 1
    /\ UNCHANGED <<regVars, limVars, cbVars, gwVars>>

RetryAllowRequest(key, tokens_needed) ==
    LET r == TokenBucket_allow_request(tb, key, tokens_needed, now) IN
    /\ tokens_needed <= tb.capacity
    /\ tb' = r.lim
    /\ lim_last' = LimCall("allow_request", key, r.ret, 0, 1)
    /\ lim_hist' = [lim_hist EXCEPT ![key] =
          IF r.ret THEN NoRetryHist
          ELSE [cost |-> tokens_needed, rejected_at |-> now,
                retry_at |-> None]]
    /\ UNCHANGED <<regVars, now, cbVars, gwVars, sw, fw>>

\* the reported time is r.num / r.den; the clock of this specification can
\* only reach the instant it names when it is a whole number of time units
RetryGetWaitTime(key) ==
    LET r == get_wait_time(tb, key, now) IN
    /\ tb' = r.lim
    /\ lim_last' = LimCall("get_wait_time", key, FALSE, r.num, r.den)
    /\ lim_hist' = [lim_hist EXCEPT ![key].retry_at =
          IF lim_hist[key].rejected_at = now /\ r.num % r.den = 0
          THEN now + (r.num \div r.den) ELSE @]
    /\ UNCHANGED <<regVars, now, cbVars, gwVars, sw, fw>>

NextTBRetry ==
    \/ RetryTick
    \/ \E key \in Keys, tokens_needed \in 1..MaxCost :
          RetryAllowRequest(key, tokens_needed)
    \/ \E key \in Keys : RetryGetWaitTime(key)

SpecTBRetry == InitTBRetry /\ [][NextTBRetry]_vars

\* C23: a client rejected by TokenBucketLimiter.allow_request(key, n), n
\* between 1 and capacity, that reads get_wait_time(key) at that moment and
\* retries the same request once that reported time has elapsed, with no
\* other request for the key in between, is admitted.
C23_RetryAfterWaitTime ==
    [][\A key \in Keys : \A n \in 1..MaxCost :
          /\ RetryAllowRequest(key, n)
          /\ lim_hist[key].retry_at = now
          /\ lim_hist[key].cost = n
          => lim_last'.allowed
      ]_vars

----------------------------------------------------------------------------
(* SpecProbe: concurrent proxy_request calls on the gateway, with the      *)
(* history of the half-open phase of each service:                         *)
(*   expired  a can_attempt() moved the breaker from OPEN to HALF_OPEN and *)
(*            no outcome has been recorded since                           *)
(*   probes   the outbound calls started since then                        *)

NoProbeHist == [expired |-> FALSE, probes |-> 0]

InitProbe ==
    /\ now = 0
    /\ IdleBreaker
    /\ IdleRegistryHistory
    /\ IdleLimiters
    /\ services = [n \in {"users", "products", "orders"} |->
                     IF n = "users" THEN <<"http://localhost:8001">>
                     ELSE IF n = "products" THEN <<"http://localhost:8002">>
                     ELSE <<"http://localhost:8003">>]
    /\ current_index = <<>>
    /\ circuit_breakers = <<>>
    /\ inflight = [n \in ServiceNames |-> 0]
    /\ last = [service |-> "", kind |-> "none", status_code |-> 0]
    /\ hist = [n \in ServiceNames |-> NoProbeHist]

\* proxy_request up to the awaited outbound call (lines 215-249)
ProbeStart(service_name, method) ==
    LET cbs1 == get_circuit_breaker(circuit_breakers, service_name)
        ca   == can_attempt(cbs1[service_name], now)
        cbs2 == [cbs1 EXCEPT ![service_name] = ca.cb]
        sel  == get_service_url(services, current_index, service_name)
        moved == cbs1[service_name].state = OPEN /\ ca.cb.state = HALF_OPEN
        h    == IF moved THEN [expired |-> TRUE, probes |-> 0]
                ELSE hist[service_name]
    IN
    /\ circuit_breakers' = cbs2
    /\ IF ~ca.ret THEN
          /\ last' = Event(service_name, "circuit_open", 503)
          /\ hist' = [hist EXCEPT ![service_name] = h]
          /\ UNCHANGED <<current_index, inflight>>
       ELSE IF sel.url = NoUrl THEN
          /\ current_index' = sel.current_index
          /\ last' = Event(service_name, "not_found", 503)
          /\ hist' = [hist EXCEPT ![service_name] = h]
          /\ UNCHANGED inflight
       ELSE IF method \notin SupportedMethods THEN
          /\ current_index' = sel.current_index
          /\ last' = Event(service_name, "ValueError", 0)
          /\ hist' = [hist EXCEPT ![service_name] = h]
          /\ UNCHANGED inflight
       ELSE
          /\ inflight[service_name] < MaxInFlight
          /\ current_index' = sel.current_index
          /\ inflight' = [inflight EXCEPT ![service_name] = @ + 1]
          /\ last' = Event(service_name, "awaiting", 0)
          /\ hist' = [hist EXCEPT ![service_name] =
                IF h.expired THEN [h EXCEPT !.probes = @ + 1] ELSE h]
    /\ UNCHANGED <<regVars, limVars, now, cbVars, services>>

\* proxy_request from the completion of the awaited call (lines 253-272)
ProbeComplete(service_name, outcome) ==
    /\ inflight[service_name] > 0
    /\ inflight' = [inflight EXCEPT ![service_name] = @ - 1]
    /\ hist' = [hist EXCEPT ![service_name] = NoProbeHist]
    /\ IF outcome.kind = "response" THEN
          /\ circuit_breakers' =
                [circuit_breakers EXCEPT ![service_name] = record_success(@)]
          /\ last' = IF outcome.body = "text"
                     THEN Event(service_name, "JSONDecodeError", 0)
                     ELSE Event(service_name, "returned", outcome.status_code)
       ELSE
          /\ circuit_breakers[service_name].failure_count < MaxFailures
          /\ circuit_breakers' =
                [circuit_breakers EXCEPT
                    ![service_name] = record_failure(@, now)]
          /\ last' = Event(service_name, "unavailable", 503)
    /\ UNCHANGED <<regVars, limVars, now, cbVars, services, current_index>>

NextProbe ==
    \/ Tick
    \/ \E name \in ServiceNames, method \in Methods :
          ProbeStart(name, method)
    \/ \E name \in ServiceNames, outcome \in Outcomes :
          ProbeComplete(name, outcome)

SpecProbe == InitProbe /\ [][NextProbe]_vars

----------------------------------------------------------------------------
(* SpecSer: concurrent request handlers on one event loop. A handler runs  *)
(* without interruption from one await to the next: token_bucket_endpoint  *)
(* has no await, proxy_request awaits only the outbound call. The state of *)
(* a handler holds                                                         *)
(*   pc    "idle", "arrived" (accepted, not yet run), "awaiting"           *)
(*   op    "allow_request" or "get_service_url"                            *)
(*   key   the client key or the service name                              *)
(*   seen  the bucket or index of that key when the request arrived, as a  *)
(*         sequence that is empty when the key had none                    *)
(* and the history holds                                                   *)
(*   tok   per key: the instant of its latest refill, the tokens it had    *)
(*         after that refill and the requests admitted at that instant     *)
(*   calls the get_service_url calls made, modulo the number of backends   *)
(*   ret   the result of the latest handler step, and whether the key had  *)
(*         a whole token when that request arrived                         *)

Handlers == {"h1", "h2"}

SerService == "users"

SerKeys == {"a"}

SerUrls == <<"http://localhost:9000", "http://localhost:9001">>

IdleHandler == [pc |-> "idle", op |-> "", key |-> "", seen |-> <<>>]

NoTokHist == [at |-> None, avail |-> 0, admitted |-> 0]

SerRet(h, op, allowed, url, had_token) ==
    [handler |-> h, op |-> op, allowed |-> allowed, url |-> url,
     had_token |-> had_token]

InitSer ==
    /\ now = 0
    /\ IdleBreaker
    /\ IdleRegistryHistory
    /\ services = [n \in {SerService} |-> SerUrls]
    /\ current_index = <<>>
    /\ circuit_breakers = <<>>
    /\ inflight = [n \in ServiceNames |-> 0]
    /\ last = [service |-> "", kind |-> "none", status_code |-> 0]
    /\ hist = [n \in ServiceNames |-> [streak |-> 0, last_fail |-> None]]
    /\ \E capacity \in 1..MaxCapacity, refill_rate \in RefillRates :
          tb = TokenBucketLimiter(capacity, refill_rate)
    /\ sw = <<>>
    /\ fw = <<>>
    /\ lim_hist = [h \in Handlers |-> IdleHandler]
    /\ lim_last = [tok   |-> [k \in SerKeys |-> NoTokHist],
                   calls |-> 0,
                   ret   |-> SerRet("", "init", FALSE, NoUrl, FALSE)]

SerTick ==
    /\ now < MaxLimTime
    /\ now' = now + 1
    /\ UNCHANGED <<regVars, limVars, cbVars, gwVars>>

\* a request reaches the event loop; its handler has not run yet
Arrive(h, op, key) ==
    /\ lim_hist[h].pc = "idle"
    /\ \/ op = "allow_request" /\ key \in SerKeys
       \/ op = "get_service_url" /\ key = SerService
    /\ lim_hist' = [lim_hist EXCEPT ![h] =
          [pc |-> "arrived", op |-> op, key |-> key,
           seen |-> IF op = "allow_request"
                    THEN IF key \in DOMAIN tb.buckets
                         THEN <<tb.buckets[key]>> ELSE <<>>
                    ELSE IF key \in DOMAIN current_index
                         THEN <<current_index[key]>> ELSE <<>>]]
    /\ UNCHANGED <<regVars, now, cbVars, gwVars, tb, sw, fw, lim_last>>

\* the limiter with the bucket of key as it was when the request arrived
SeenLimiter(key, seen) ==
    [tb EXCEPT !.buckets =
        [k \in (DOMAIN tb.buckets \ {key})
                  \cup (IF seen = <<>> THEN {} ELSE {key}) |->
            IF k = key THEN seen[1] ELSE tb.buckets[k]]]

\* the bucket seen at arrival held a whole token (a new bucket starts full)
HadToken(seen) == seen = <<>> \/ seen[1].tokens >= TokenScale

\* the history of key after a request of it was admitted or rejected now
TokAfter(key, allowed) ==
    LET g     == lim_last.tok[key]
        fresh == g.at # now
    IN [at       |-> now,
        avail    |-> IF fresh
                     THEN refill_tokens(tb, get_bucket(tb, key, now)[key],
                                        now).tokens
                     ELSE g.avail,
        admitted |-> (IF fresh THEN 0 ELSE g.admitted)
                     + (IF allowed THEN 1 ELSE 0)]

\* mutation: the handler yields between reading the bucket and writing it,
\* so it works on the bucket it saw when the request arrived
EndpointRun_stale(h) ==
    LET c == lim_hist[h]
        r == TokenBucket_allow_request(SeenLimiter(c.key, c.seen),
                                       c.key, 1, now)
    IN
    /\ c.pc = "arrived" /\ c.op = "allow_request"
    /\ tb' = r.lim
    /\ lim_hist' = [lim_hist EXCEPT ![h] = IdleHandler]
    /\ lim_last' = [lim_last EXCEPT
                       !.tok[c.key] = TokAfter(c.key, r.ret),
                       !.ret = SerRet(h, c.op, r.ret, NoUrl, HadToken(c.seen))]
    /\ UNCHANGED <<regVars, now, cbVars, gwVars, sw, fw>>

\* token_bucket_endpoint: allow_request(client_id, 1), no await
EndpointRun(h) ==
    LET c == lim_hist[h]
        r == TokenBucket_allow_request(tb, c.key, 1, now)
    IN
    /\ c.pc = "arrived" /\ c.op = "allow_request"
    /\ tb' = r.lim
    /\ lim_hist' = [lim_hist EXCEPT ![h] = IdleHandler]
    /\ lim_last' = [lim_last EXCEPT
                       !.tok[c.key] = TokAfter(c.key, r.ret),
                       !.ret = SerRet(h, c.op, r.ret, NoUrl, HadToken(c.seen))]
    /\ UNCHANGED <<regVars, now, cbVars, gwVars, sw, fw>>

\* proxy_request up to the awaited outbound call (lines 215-249), method GET
ProxyRun(h) ==
    LET c    == lim_hist[h]
        cbs1 == get_circuit_breaker(circuit_breakers, c.key)
        ca   == can_attempt(cbs1[c.key], now)
        sel  == get_service_url(services, current_index, c.key)
    IN
    /\ c.pc = "arrived" /\ c.op = "get_service_url"
    /\ ca.ret /\ sel.url # NoUrl
    /\ circuit_breakers' = [cbs1 EXCEPT ![c.key] = ca.cb]
    /\ current_index' = sel.current_index
    /\ inflight' = [inflight EXCEPT ![c.key] = @ + 1]
    /\ lim_hist' = [lim_hist EXCEPT ![h].pc = "awaiting"]
    /\ lim_last' = [lim_last EXCEPT
                       !.calls = (@ + 1) % Len(services[c.key]),
                       !.ret = SerRet(h, c.op, TRUE, sel.url, FALSE)]
    /\ UNCHANGED <<regVars, now, cbVars, services, last, hist, tb, sw, fw>>

\* proxy_request after the outbound call returned a response (lines 253-263)
ProxyReturn(h) ==
    LET c == lim_hist[h] IN
    /\ c.pc = "awaiting"
    /\ circuit_breakers' =
          [circuit_breakers EXCEPT ![c.key] = record_success(@)]
    /\ inflight' = [inflight EXCEPT ![c.key] = @ - 1]
    /\ lim_hist' = [lim_hist EXCEPT ![h] = IdleHandler]
    /\ UNCHANGED <<regVars, now, cbVars, services, current_index, last, hist,
                   tb, sw, fw, lim_last>>

NextSer ==
    \/ SerTick
    \/ \E h \in Handlers, key \in SerKeys : Arrive(h, "allow_request", key)
    \/ \E h \in Handlers : Arrive(h, "get_service_url", SerService)
    \/ \E h \in Handlers : EndpointRun(h)
    \/ \E h \in Handlers : ProxyRun(h)
    \/ \E h \in Handlers : ProxyReturn(h)

SpecSer == InitSer /\ [][NextSer]_vars

\* the tokens key has left at the instant of its latest refill
TokensLeft(key) ==
    lim_last.tok[key].avail - lim_last.tok[key].admitted * TokenScale

C25_NoLostUpdate ==
    /\ \A key \in SerKeys :
          lim_last.tok[key].at = now =>
              /\ key \in DOMAIN tb.buckets
              /\ tb.buckets[key].tokens = TokensLeft(key)
              /\ TokensLeft(key) >= 0
    /\ SerService \in DOMAIN current_index =>
          current_index[SerService] = lim_last.calls

\* C25: read-modify-write sequences on one key or service are serialized:
\* concurrent handlers calling allow_request on the same key (or
\* get_service_url on the same service) behave as in some serial order of
\* the calls, so every admission is taken from the tokens left by the
\* admissions before it and two concurrent requests are never both admitted
\* when one token remains; every get_service_url returns the backend after
\* the one returned by the call before it.
C25_Serialized ==
    /\ []C25_NoLostUpdate
    /\ [][\A h \in Handlers :
             /\ EndpointRun(h) =>
                   (lim_last'.ret.allowed <=>
                       (IF lim_last.tok[lim_hist[h].key].at = now
                        THEN TokensLeft(lim_hist[h].key)
                        ELSE lim_last'.tok[lim_hist[h].key].avail)
                           >= TokenScale)
             /\ ProxyRun(h) =>
                   lim_last'.ret.url = services[SerService][lim_last.calls + 1]
       ]_vars

\* a request that arrived while its key had a token was rejected, because
\* the handler of a concurrent request of the key ran first and took it
C25_Witness ==
    /\ lim_last.ret.op = "allow_request"
    /\ ~lim_last.ret.allowed
    /\ lim_last.ret.had_token

----------------------------------------------------------------------------
(* Breaker invariants *)

\* the breaker after n further record_failure() calls at time t
RECURSIVE Fails(_, _, _)
Fails(b, t, n) == IF n = 0 THEN b ELSE Fails(record_failure(b, t), t, n - 1)

\* C26: the breaker has no terminal state: from every reachable breaker
\* state each of CLOSED, OPEN and HALF_OPEN is reachable by a further
\* sequence of operations, namely failure_threshold failures (OPEN), then
\* can_attempt() once timeout_seconds have passed (HALF_OPEN), then
\* record_success() (CLOSED).
C26_NoTerminalState ==
    LET opened == Fails(cb, now, cb.failure_threshold)
        half   == can_attempt(opened, now + cb.timeout_seconds)
        closed == record_success(half.cb)
    IN /\ opened.state = OPEN
       /\ half.ret /\ half.cb.state = HALF_OPEN
       /\ closed.state = CLOSED

\* a breaker that a failed probe left HALF_OPEN, below its threshold
C26_Witness ==
    /\ cb.state = HALF_OPEN
    /\ cb_last.op = "record_failure"
    /\ cb.failure_count < cb.failure_threshold

\* C27: for failure_threshold >= 1 a CLOSED breaker has
\* 0 <= failure_count < failure_threshold, and a breaker is not CLOSED once
\* failure_threshold failures have been recorded since the last success.
C27_ClosedBelowThreshold ==
    /\ cb.state = CLOSED =>
          0 <= cb.failure_count /\ cb.failure_count < cb.failure_threshold
    /\ cb_hist.streak >= cb.failure_threshold => cb.state # CLOSED

\* a CLOSED breaker one failure short of its threshold
C27_Witness ==
    /\ cb.state = CLOSED
    /\ cb_last.op = "record_failure"
    /\ cb.failure_count = cb.failure_threshold - 1
    /\ cb.failure_count >= 1

\* C28: in every reachable state of the gateway, also when outcomes of
\* requests admitted earlier are recorded after the breaker has opened, an
\* OPEN breaker has failure_count >= failure_threshold and a non-empty
\* last_failure_time.
C28_OpenAtThreshold ==
    \A name \in DOMAIN circuit_breakers :
        circuit_breakers[name].state = OPEN =>
            /\ circuit_breakers[name].failure_count
                  >= circuit_breakers[name].failure_threshold
            /\ circuit_breakers[name].last_failure_time # None

----------------------------------------------------------------------------
(* SpecRot: register_service during live rotation. The history of a name   *)
(* follows the URL that was last appended while the name had a round-robin *)
(* index:                                                                  *)
(*   pos    its position in the list, NoPos when none is followed          *)
(*   calls  the get_service_url calls of the name made since               *)
(*   served the number of calls after which it was returned, when the      *)
(*          latest call of the name returned it                            *)

NoRotHist == [pos |-> NoPos, calls |-> 0, served |-> 0]

InitRot ==
    /\ now = 0
    /\ IdleBreaker
    /\ InitGateway
    /\ reg_last = [op |-> "init", name |-> "", url |-> ""]
    /\ reg_hist = [n \in RegNames |-> NoRotHist]
    /\ IdleLimiters

RotRegister(name, url) ==
    LET after == register_service(services, name, url)
        old   == IF name \in DOMAIN services THEN services[name] ELSE <<>>
    IN
    /\ services' = after
    /\ reg_last' = [op |-> "register_service", name |-> name, url |-> url]
    /\ reg_hist' = [reg_hist EXCEPT ![name] =
          IF Len(after[name]) > Len(old) /\ name \in DOMAIN current_index
          THEN [pos |-> PosOf(after[name], url), calls |-> 0, served |-> 0]
          ELSE [@ EXCEPT !.served = 0]]
    /\ UNCHANGED <<limVars, now, cbVars, current_index, circuit_breakers,
                   inflight, last, hist>>

RotGetUrl(name) ==
    LET sel == get_service_url(services, current_index, name)
        h   == reg_hist[name]
    IN
    /\ current_index' = sel.current_index
    /\ reg_last' = [op |-> "get_service_url", name |-> name, url |-> sel.url]
    /\ reg_hist' = [reg_hist EXCEPT ![name] =
          IF h.pos = NoPos THEN NoRotHist
          ELSE IF sel.url = services[name][h.pos + 1]
          THEN [pos |-> NoPos, calls |-> 0, served |-> h.calls + 1]
          ELSE [pos |-> h.pos, calls |-> h.calls + 1, served |-> 0]]
    /\ UNCHANGED <<limVars, now, cbVars, services, circuit_breakers,
                   inflight, last, hist>>

NextRot ==
    \/ \E name \in RegNames, url \in RegUrls : RotRegister(name, url)
    \/ \E name \in RegNames : RotGetUrl(name)

SpecRot == InitRot /\ [][NextRot]_vars

C29_IndexInRange ==
    /\ \A name \in DOMAIN current_index :
          /\ name \in DOMAIN services
          /\ 0 <= current_index[name]
          /\ current_index[name] < Len(services[name])
    /\ \A name \in RegNames :
          /\ reg_hist[name].pos # NoPos =>
                reg_hist[name].calls < Len(services[name])
          /\ reg_hist[name].served > 0 =>
                reg_hist[name].served <= Len(services[name])

\* C29: after any interleaved sequence of register_service and
\* get_service_url calls every stored round-robin index satisfies
\* 0 <= current_index[name] < len(services[name]); get_service_url never
\* indexes outside the list, and a URL registered during live rotation is
\* returned within len(services[name]) further calls.
C29_RotationStaysInRange ==
    /\ []C29_IndexInRange
    /\ [][\A name \in RegNames :
             RotGetUrl(name) /\ name \in DOMAIN services
                 /\ services[name] # <<>> =>
                 /\ reg_last'.url # NoUrl
                 /\ \E i \in 1..Len(services[name]) :
                       reg_last'.url = services[name][i]
       ]_vars

\* a URL appended while the index stood past the head of the list was
\* returned after the rotation had wrapped around
C29_Witness ==
    \E name \in RegNames :
        /\ reg_last.op = "get_service_url" /\ reg_last.name = name
        /\ name \in DOMAIN services
        /\ reg_hist[name].served = Len(services[name])
        /\ reg_hist[name].served >= 2

----------------------------------------------------------------------------
(* Float arithmetic of the token bucket. time.time() and the token count   *)
(* are binary floating-point numbers: every subtraction, product and sum   *)
(* of _refill_tokens is rounded to the nearest representable value, ties   *)
(* to even. The model keeps that rounding at a reduced precision: a float  *)
(* is a non-negative multiple of 1 / FloatOne with at most Precision       *)
(* significant bits.                                                       *)

Precision == 2

\* the float 1.0
FloatOne == 16

\* refill_rate, in 1 / FloatOne tokens per time unit
FloatRates == {4, 5}

RECURSIVE Pow2(_)
Pow2(e) == IF e = 0 THEN 1 ELSE 2 * Pow2(e - 1)

\* the exponent of the spacing of the floats around v
RECURSIVE SpacingExp(_, _)
SpacingExp(v, e) ==
    IF v < Pow2(Precision + e) THEN e ELSE SpacingExp(v, e + 1)

\* v rounded to the nearest float, ties to the even significand
Fl(v) ==
    LET step == Pow2(SpacingExp(v, 0))
        q    == v \div step
        r    == v % step
    IN IF 2 * r < step THEN q * step
       ELSE IF 2 * r > step THEN (q + 1) * step
       ELSE IF q % 2 = 0 THEN q * step ELSE (q + 1) * step

fl_get_bucket(lim, key, t) ==
    IF key \in DOMAIN lim.buckets THEN lim.buckets
    ELSE [k \in DOMAIN lim.buckets \cup {key} |->
             IF k = key
             THEN [tokens |-> Fl(lim.capacity * FloatOne), last_update |-> t]
             ELSE lim.buckets[k]]

fl_refill_tokens(lim, bucket, t) ==
    LET elapsed == Fl(t - bucket.last_update)
    IN [tokens      |-> Min(Fl(lim.capacity * FloatOne),
                            Fl(bucket.tokens + Fl(elapsed * lim.refill_rate))),
        last_update |-> t]

fl_allow_request(lim, key, tokens_needed, t) ==
    LET bucket == fl_refill_tokens(lim, fl_get_bucket(lim, key, t)[key], t)
        ok     == bucket.tokens >= tokens_needed * FloatOne
        after  == IF ok
                  THEN [bucket EXCEPT
                           !.tokens = Fl(@ - tokens_needed * FloatOne)]
                  ELSE bucket
    IN [ret |-> ok,
        lim |-> [lim EXCEPT !.buckets =
                    [k \in DOMAIN lim.buckets \cup {key} |->
                        IF k = key THEN after ELSE lim.buckets[k]]]]

\* get_wait_time, its effect on the limiter only
fl_get_wait_time(lim, key, t) ==
    LET bucket == fl_refill_tokens(lim, fl_get_bucket(lim, key, t)[key], t)
    IN [lim EXCEPT !.buckets =
           [k \in DOMAIN lim.buckets \cup {key} |->
               IF k = key THEN bucket ELSE lim.buckets[k]]]

(* SpecPure: one limiter next to a copy of it that receives the same       *)
(* allow_request calls at the same clock readings and none of the queries. *)
(* lim_hist is the copy; lim_last holds, for the latest allow_request, the *)
(* result of the limiter, the result of the copy, and whether the entries  *)
(* of the key differed before the call.                                    *)

PureCall(op, key, allowed, copy, differed) ==
    [op |-> op, key |-> key, allowed |-> allowed, copy |-> copy,
     differed |-> differed]

Active(lim) == DOMAIN lim # {}

\* the entry of key in the map m, as a sequence that is empty without one
EntryOf(m, key) == IF key \in DOMAIN m THEN <<m[key]>> ELSE <<>>

InitPure ==
    /\ now = 0
    /\ IdleBreaker
    /\ InitGateway
    /\ IdleRegistryHistory
    /\ \/ /\ \E capacity \in 1..MaxCapacity, refill_rate \in FloatRates :
                tb = TokenBucketLimiter(capacity, refill_rate)
          /\ sw = <<>> /\ fw = <<>>
          /\ lim_hist = tb
       \/ /\ \E max_requests \in MaxRequestsChoices,
                window_seconds \in WindowChoices :
                sw = SlidingWindowLimiter(max_requests, window_seconds)
          /\ tb = <<>> /\ fw = <<>>
          /\ lim_hist = sw
       \/ /\ \E max_requests \in MaxRequestsChoices,
                window_seconds \in WindowChoices :
                fw = FixedWindowCounter(max_requests, window_seconds)
          /\ tb = <<>> /\ sw = <<>>
          /\ lim_hist = fw
    /\ lim_last = PureCall("init", "", FALSE, FALSE, FALSE)

PureTick ==
    /\ now < MaxLimTime
    /\ now' = now + 1
    /\ UNCHANGED <<regVars, limVars, cbVars, gwVars>>

PureTBAllowRequest(key) ==
    LET r == fl_allow_request(tb, key, 1, now)
        c == fl_allow_request(lim_hist, key, 1, now)
    IN
    /\ Active(tb)
    /\ tb' = r.lim
    /\ lim_hist' = c.lim
    /\ lim_last' = PureCall("allow_request", key, r.ret, c.ret,
                            EntryOf(tb.buckets, key)
                                # EntryOf(lim_hist.buckets, key))
    /\ UNCHANGED <<regVars, now, cbVars, gwVars, sw, fw>>

PureTBGetWaitTime(key) ==
    /\ Active(tb)
    /\ tb' = fl_get_wait_time(tb, key, now)
    /\ lim_last' = PureCall("get_wait_time", key, FALSE, FALSE, FALSE)
    /\ UNCHANGED <<regVars, now, cbVars, gwVars, sw, fw, lim_hist>>

PureSWAllowRequest(key, gap) ==
    LET r == SlidingWindow_allow_request(sw, key, now, now + gap)
        c == SlidingWindow_allow_request(lim_hist, key, now, now + gap)
    IN
    /\ Active(sw)
    /\ now + gap <= MaxLimTime
    /\ ~r.ret => gap = 0
    /\ now' = now + gap
    /\ sw' = r.lim
    /\ lim_hist' = c.lim
    /\ lim_last' = PureCall("allow_request", key, r.ret, c.ret,
                            EntryOf(sw.requests, key)
                                # EntryOf(lim_hist.requests, key))
    /\ UNCHANGED <<regVars, cbVars, gwVars, tb, fw>>

PureSWGetRemainingRequests(key) ==
    /\ Active(sw)
    /\ sw' = SlidingWindow_get_remaining_requests(sw, key, now).lim
    /\ lim_last' = PureCall("get_remaining_requests", key, FALSE, FALSE, FALSE)
    /\ UNCHANGED <<regVars, now, cbVars, gwVars, tb, fw, lim_hist>>

PureSWGetResetTime(key) ==
    /\ Active(sw)
    /\ sw' = get_reset_time(sw, key, now).lim
    /\ lim_last' = PureCall("get_reset_time", key, FALSE, FALSE, FALSE)
    /\ UNCHANGED <<regVars, now, cbVars, gwVars, tb, fw, lim_hist>>

PureFWAllowRequest(key) ==
    LET r == FixedWindow_allow_request(fw, key, now)
        c == FixedWindow_allow_request(lim_hist, key, now)
    IN
    /\ Active(fw)
    /\ fw' = r.lim
    /\ lim_hist' = c.lim
    /\ lim_last' = PureCall("allow_request", key, r.ret, c.ret,
                            EntryOf(fw.windows, key)
                                # EntryOf(lim_hist.windows, key))
    /\ UNCHANGED <<regVars, now, cbVars, gwVars, tb, sw>>

PureFWGetRemainingRequests(key) ==
    /\ Active(fw)
    /\ fw' = FixedWindow_get_remaining_requests(fw, key, now).lim
    /\ lim_last' = PureCall("get_remaining_requests", key, FALSE, FALSE, FALSE)
    /\ UNCHANGED <<regVars, now, cbVars, gwVars, tb, sw, lim_hist>>

NextPure ==
    \/ PureTick
    \/ \E key \in Keys : PureTBAllowRequest(key)
    \/ \E key \in Keys : PureTBGetWaitTime(key)
    \/ \E key \in Keys, gap \in ReadGaps : PureSWAllowRequest(key, gap)
    \/ \E key \in Keys : PureSWGetRemainingRequests(key)
    \/ \E key \in Keys : PureSWGetResetTime(key)
    \/ \E key \in Keys : PureFWAllowRequest(key)
    \/ \E key \in Keys : PureFWGetRemainingRequests(key)

SpecPure == InitPure /\ [][NextPure]_vars

\* C30: the limiter queries are observationally pure: inserting
\* get_remaining_requests (fixed or sliding window), get_reset_time or
\* get_wait_time for any key at any point of a call sequence, with the same
\* clock readings, does not change the result of any later allow_request
\* for any key.
C30_QueriesArePure ==
    lim_last.op = "allow_request" => lim_last.allowed = lim_last.copy

====
